---- MODULE Spec2Model ----
(***************************************************************************)
(* State-machine model of query_all (src/utilities.py), the generator that *)
(* pages through the Crossref API with retry, backoff and page shrinking.  *)
(* One action per outcome of a loop iteration up to the next suspension    *)
(* point of the generator: a failed call, a non-200 response, a not-ok     *)
(* payload, an ok page (up to "yield from"), one yielded item, and the     *)
(* position update that follows the last yielded item.                     *)
(***************************************************************************)
EXTENDS Integers, Naturals, Sequences, FiniteSets, TLC

\* ---------------------------------------------------------------- bounds
MaxBatch  == 2      \* batch_size ranges over 1..MaxBatch
MaxErrors == 2      \* cap on the length of a failure streak
MaxTotal  == 2      \* largest total-results / upstream collection size
MaxPage   == 2      \* largest item list an arbitrary upstream returns
MaxItems  == 1      \* max_items ranges over None and 0..MaxItems

\* ---------------------------------------------------------- Python values
None    == -1       \* None / unbound local / missing key, for integers
NoneStr == "None"   \* None, for the cursor

Truthy(c) == c # NoneStr /\ c # ""

Min(a, b) == IF a <= b THEN a ELSE b
Max(a, b) == IF a >= b THEN a ELSE b

RECURSIVE Pow(_, _)
Pow(b, e) == IF e = 0 THEN 1 ELSE b * Pow(b, e - 1)

\* the whole list, whatever the cap
SliceToAll(s, k) == s

\* items[:k] with Python's slice semantics (a negative k counts from the end)
SliceTo(s, k) ==
    IF k >= 0 THEN SubSeq(s, 1, Min(k, Len(s)))
              ELSE SubSeq(s, 1, Max(0, Len(s) + k))

\* 0.75 * rows rounded half up instead of truncated
ShrinkRounded(r) == (3 * r + 2) \div 4

\* rows = int(0.75 * rows): 0.75 * rows is exact in binary floating point,
\* int() truncates; rows is never negative
Shrink(r) == (3 * r) \div 4

\* the records b, b+1, .., b+n-1 of a collection, as a page
Run(b, n) == [i \in 1..n |-> b + i - 1]

\* ------------------------------------------------------ cursors of a server
Tokens == <<"*", "c1", "c2", "c3", "c4", "c5", "c6", "c7", "c8">>
CursorAt(p) == Tokens[p + 1]
PosOf(c) == CHOOSE p \in 0..(Len(Tokens) - 1) : Tokens[p + 1] = c

VARIABLES
    batch_size, max_items, cursor_arg,   \* the arguments of the call
    cursor, offset,                      \* the position
    successive_errors, rows,             \* the error state
    progress_bar, total, n,              \* progress_bar is None or a bar; n is progress_bar.n
    incomplete,
    result, items,                       \* the payload of the last ok page and the items taken from it
    pc, yieldPos, error,                 \* where the generator stands
    yielded,                             \* the records handed to the consumer so far
    lastReq, lastOutcome, tick,          \* the last api_query call and what came back
    slept,                               \* argument of the last time.sleep call
    streak,                              \* failed calls since the last HTTP 200 response
    clean,                               \* no failure and no not-ok payload so far
    starved,                             \* an ok page came back empty while records were still due
    upstreamN                            \* size of the collection a static upstream holds

vars == <<batch_size, max_items, cursor_arg, cursor, offset, successive_errors,
          rows, progress_bar, total, n, incomplete, result, items, pc,
          yieldPos, error, yielded, lastReq, lastOutcome, tick, slept,
          streak, clean, starved, upstreamN>>

args == <<batch_size, max_items, cursor_arg, upstreamN>>

NoResult == [total_results |-> None, items |-> <<>>, start_index |-> None,
             next_cursor |-> NoneStr]
NoReq    == [key |-> "none", cursor |-> NoneStr, offset |-> None, rows |-> None]

\* offset bound at the start of every run, cursor or not
InitStateBound ==
    /\ cursor = cursor_arg
    /\ offset = 0
    /\ successive_errors = 0
    /\ rows = batch_size
    /\ progress_bar = "None"
    /\ total = None
    /\ n = 0
    /\ incomplete = TRUE
    /\ result = [total_results |-> None, items |-> <<>>, start_index |-> None,
                 next_cursor |-> NoneStr]
    /\ items = <<>>
    /\ pc = "request"
    /\ yieldPos = 0
    /\ error = "none"
    /\ yielded = <<>>
    /\ lastReq = [key |-> "none", cursor |-> NoneStr, offset |-> None, rows |-> None]
    /\ lastOutcome = "none"
    /\ tick = 0
    /\ slept = 0
    /\ streak = 0
    /\ clean = TRUE
    /\ starved = FALSE

\* lines 45-51
InitState ==
    /\ cursor = cursor_arg
    /\ offset = IF Truthy(cursor_arg) THEN None ELSE 0
    /\ successive_errors = 0
    /\ rows = batch_size
    /\ progress_bar = "None"
    /\ total = None
    /\ n = 0
    /\ incomplete = TRUE
    /\ result = NoResult
    /\ items = <<>>
    /\ pc = "request"
    /\ yieldPos = 0
    /\ error = "none"
    /\ yielded = <<>>
    /\ lastReq = NoReq
    /\ lastOutcome = "none"
    /\ tick = 0
    /\ slept = 0
    /\ streak = 0
    /\ clean = TRUE
    /\ starved = FALSE

Init ==
    /\ batch_size \in 1..MaxBatch
    /\ max_items \in {None} \cup 0..MaxItems
    /\ cursor_arg \in {NoneStr, "", "*"}
    /\ upstreamN = 0
    /\ InitState

\* line 56 and the rows keyword of line 58
Params ==
    IF Truthy(cursor)
    THEN [key |-> "cursor", cursor |-> cursor, offset |-> None, rows |-> rows]
    ELSE [key |-> "offset", cursor |-> NoneStr, offset |-> offset, rows |-> rows]

\* line 56 can be evaluated: offset is bound whenever the cursor is falsy
CanCall == pc = "request" /\ (Truthy(cursor) \/ offset # None)

\* line 56 with a falsy cursor in a run that never bound offset
ParamsError ==
    /\ pc = "request"
    /\ ~Truthy(cursor) /\ offset = None
    /\ pc' = "error"
    /\ error' = "UnboundLocalError"
    /\ UNCHANGED <<args, cursor, offset, successive_errors, rows, progress_bar,
                   total, n, incomplete, result, items, yieldPos, yielded,
                   lastReq, lastOutcome, tick, slept, streak, clean, starved>>

\* the sleep computed from the counter before its increment
BackoffEarly(k) == Pow(2, k - 1)

\* lines 65 and 77: the argument of time.sleep
Backoff(k) == Pow(2, k)

\* rows left as the failure streak shrank it
RowsKept(r) == r

\* line 83
RowsAfterSuccess(r) == batch_size

\* a recoverable error that moves on past the rows it asked for
RecoverableErrorSkipping(kind) ==
    /\ pc = "request" /\ (Truthy(cursor) \/ offset # None)
    /\ successive_errors < MaxErrors
    /\ successive_errors' = successive_errors + 1
    /\ slept' = Pow(2, successive_errors')
    /\ rows' = (3 * rows) \div 4
    /\ offset' = IF offset # None THEN offset + rows ELSE offset
    /\ lastReq' = IF Truthy(cursor)
                  THEN [key |-> "cursor", cursor |-> cursor, offset |-> None, rows |-> rows]
                  ELSE [key |-> "offset", cursor |-> NoneStr, offset |-> offset, rows |-> rows]
    /\ lastOutcome' = kind
    /\ tick' = 1 - tick
    /\ streak' = streak + 1
    /\ clean' = FALSE
    /\ UNCHANGED <<args, cursor, progress_bar, total, n, incomplete,
                   result, items, pc, yieldPos, error, yielded, starved>>

\* lines 60-67 and 71-79: the two recoverable errors run the same statements
RecoverableError(kind) ==
    /\ CanCall
    /\ successive_errors < MaxErrors
    /\ successive_errors' = successive_errors + 1
    /\ slept' = Backoff(successive_errors')
    /\ rows' = Shrink(rows)
    /\ lastReq' = Params
    /\ lastOutcome' = kind
    /\ tick' = 1 - tick
    /\ streak' = streak + 1
    /\ clean' = FALSE
    /\ UNCHANGED <<args, cursor, offset, progress_bar, total, n, incomplete,
                   result, items, pc, yieldPos, error, yielded, starved>>

\* lines 57-67: api_query raises
TransportError == RecoverableError("transport")

\* lines 69-79: status_code != 200
HTTPStatusError == RecoverableError("status")

\* a not-ok payload handled as the recoverable errors are
NotOkCounted ==
    /\ CanCall
    /\ successive_errors < MaxErrors
    /\ successive_errors' = successive_errors + 1
    /\ slept' = Pow(2, successive_errors')
    /\ rows' = (3 * rows) \div 4
    /\ lastReq' = Params
    /\ lastOutcome' = "notok"
    /\ tick' = 1 - tick
    /\ streak' = 0
    /\ clean' = FALSE
    /\ UNCHANGED <<args, cursor, offset, progress_bar, total, n, incomplete,
                   result, items, pc, yieldPos, error, yielded, starved>>

\* a not-ok payload that skips the rollback of lines 82-83
NotOkFrozen ==
    /\ CanCall
    /\ lastReq' = Params
    /\ lastOutcome' = "notok"
    /\ tick' = 1 - tick
    /\ streak' = 0
    /\ clean' = FALSE
    /\ UNCHANGED <<args, cursor, offset, successive_errors, rows, progress_bar,
                   total, n, incomplete, result, items, pc, yieldPos, error,
                   yielded, slept, starved>>

\* lines 81-92: HTTP 200 whose payload status is not "ok"
NotOk ==
    /\ CanCall
    /\ successive_errors' = 0
    /\ rows' = RowsAfterSuccess(rows)
    /\ lastReq' = Params
    /\ lastOutcome' = "notok"
    /\ tick' = 1 - tick
    /\ streak' = 0
    /\ clean' = FALSE
    /\ UNCHANGED <<args, cursor, offset, progress_bar, total, n, incomplete,
                   result, items, pc, yieldPos, error, yielded, slept,
                   starved>>

\* total recomputed from every ok payload
NewTotalEveryPage(T) == IF max_items # None THEN Min(T, max_items) ELSE T

\* total taken from the payload without the max_items clamp
NewTotalUnclamped(T) == IF progress_bar = "None" THEN T ELSE total

\* lines 94-99
NewTotal(T) ==
    IF progress_bar = "None"
    THEN IF max_items # None THEN Min(T, max_items) ELSE T
    ELSE total

\* lines 81-104: HTTP 200, status "ok", payload (T, its, si, nc), up to the
\* first item of "yield from items"
OkPage(T, its, si, nc) ==
    /\ CanCall
    /\ successive_errors' = 0
    /\ rows' = RowsAfterSuccess(rows)
    /\ result' = [total_results |-> T, items |-> its, start_index |-> si,
                  next_cursor |-> nc]
    /\ total' = NewTotal(T)
    /\ progress_bar' = "tqdm"
    /\ items' = SliceTo(its, total' - n)
    /\ yieldPos' = 0
    /\ pc' = "yield"
    /\ lastReq' = Params
    /\ lastOutcome' = "ok"
    /\ tick' = 1 - tick
    /\ streak' = 0
    /\ starved' = (starved \/ (its = <<>> /\ n < total'))
    /\ UNCHANGED <<args, cursor, offset, n, incomplete, error, yielded, slept,
                   clean>>

\* line 104: one item of "yield from items" reaches the consumer
Yield ==
    /\ pc = "yield"
    /\ yieldPos < Len(items)
    /\ yielded' = Append(yielded, items[yieldPos + 1])
    /\ yieldPos' = yieldPos + 1
    /\ UNCHANGED <<args, cursor, offset, successive_errors, rows, progress_bar,
                   total, n, incomplete, result, items, pc, error, lastReq,
                   lastOutcome, tick, slept, streak, clean, starved>>

\* the assertion compiled away
MismatchIgnored == FALSE

\* line 115: the assertion fails
Mismatch ==
    /\ ~Truthy(cursor)
    /\ result.start_index # None
    /\ offset # result.start_index

\* the start-index compared before the items are yielded
StartIndexMismatchEarly ==
    /\ pc = "yield"
    /\ ~Truthy(cursor)
    /\ result.start_index # None
    /\ offset # result.start_index
    /\ pc' = "error"
    /\ error' = "AssertionError"
    /\ UNCHANGED <<args, cursor, offset, successive_errors, rows, progress_bar,
                   total, n, incomplete, result, items, yieldPos, yielded,
                   lastReq, lastOutcome, tick, slept, streak, clean, starved>>

\* lines 111-115: offset mode, the payload's start-index differs from offset
StartIndexMismatch ==
    /\ pc = "yield"
    /\ yieldPos = Len(items)
    /\ Mismatch
    /\ pc' = "error"
    /\ error' = "AssertionError"
    /\ UNCHANGED <<args, cursor, offset, successive_errors, rows, progress_bar,
                   total, n, incomplete, result, items, yieldPos, yielded,
                   lastReq, lastOutcome, tick, slept, streak, clean, starved>>

\* the cursor left as it was
NextCursorStale(c, res) == c

\* line 108
NextCursor(c, res) == res.next_cursor

\* offset left where it was
NextOffsetStuck(o, its) == o

\* offset advanced by the length of the payload's item list
NextOffsetByPage(o, its) == o + Len(result.items)

\* line 118
NextOffset(o, its) == o + Len(its)

\* the loop left as soon as the count reaches total
IncompleteBelowTotal(its) == n + Len(its) < total

\* line 121
Incomplete(its) == Len(its) > 0

\* lines 106-121 and the loop test of line 53
UpdatePosition ==
    /\ pc = "yield"
    /\ yieldPos = Len(items)
    /\ ~Mismatch
    /\ IF Truthy(cursor)
       THEN cursor' = NextCursor(cursor, result) /\ offset' = offset
       ELSE offset' = NextOffset(offset, items) /\ cursor' = cursor
    /\ n' = n + Len(items)
    /\ incomplete' = Incomplete(items)
    /\ pc' = IF incomplete' THEN "request" ELSE "done"
    /\ UNCHANGED <<args, successive_errors, rows, progress_bar, total, result,
                   items, yieldPos, error, yielded, lastReq, lastOutcome, tick,
                   slept, streak, clean, starved>>

\* an upstream that may answer anything: any total-results, any item list
\* (longer than rows too), and any value of the positional field the mode
\* reads (start-index, possibly missing, in offset mode; next-cursor,
\* possibly empty, in cursor mode)
ArbitraryPage ==
    \E T \in 0..MaxTotal, len \in 0..MaxPage :
        \/ /\ ~Truthy(cursor)
           /\ \E si \in {None, 0, 1} : OkPage(T, Run(0, len), si, NoneStr)
        \/ /\ Truthy(cursor)
           /\ \E nc \in {"", "c1", "c2"} : OkPage(T, Run(0, len), None, nc)

Next ==
    \/ TransportError
    \/ HTTPStatusError
    \/ NotOk
    \/ ArbitraryPage
    \/ Yield
    \/ StartIndexMismatch
    \/ UpdatePosition
    \/ ParamsError

Spec == Init /\ [][Next]_vars

\* ------------------------------------------------------- a static upstream
\* A server holding the records 0 .. upstreamN-1: a request at position p
\* for rows records is answered with the records p .. p+rows-1 that exist,
\* total-results = upstreamN, the position as start-index (or no start-index)
\* and, in cursor mode, the cursor of the position after the page.
StaticPosition == IF Truthy(cursor) THEN PosOf(cursor) ELSE offset

StaticCount == Max(0, Min(rows, upstreamN - StaticPosition))

StaticPage ==
    \/ /\ ~Truthy(cursor)
       /\ \E si \in {None, StaticPosition} :
            OkPage(upstreamN, Run(StaticPosition, StaticCount), si, NoneStr)
    \/ /\ Truthy(cursor)
       /\ OkPage(upstreamN, Run(StaticPosition, StaticCount), None,
                 CursorAt(StaticPosition + StaticCount))

InitStatic ==
    /\ batch_size \in 1..MaxBatch
    /\ max_items \in {None} \cup 0..MaxItems
    /\ cursor_arg \in {NoneStr, "*"}
    /\ upstreamN \in 0..MaxTotal
    /\ InitState

NextStatic ==
    \/ TransportError
    \/ HTTPStatusError
    \/ NotOk
    \/ StaticPage
    \/ Yield
    \/ UpdatePosition

SpecStatic == InitStatic /\ [][NextStatic]_vars

\* the upstream eventually answers with an ok page and the consumer keeps
\* pulling items
LiveStatic ==
    /\ SpecStatic
    /\ WF_vars(StaticPage)
    /\ WF_vars(Yield)
    /\ WF_vars(UpdatePosition)


\* ------------------------------------------------------------ observations
\* a step that issued an api_query call
Called == tick' # tick

Failed(o) == o \in {"transport", "status"}

\* the step on which line 120 ran: the page was processed to its end
PageDone == pc = "yield" /\ pc' \in {"request", "done"}

CursorMode == Truthy(cursor_arg)

\* ===================================================================== C1
\* C1: the number of records emitted so far (progress_bar.n, and the records
\* actually handed to the consumer) never exceeds total, and total is the
\* total-results of the first ok page, clamped to max_items unless max_items
\* is None; nothing is emitted before total is set.
C1_TotalIsCap ==
    (progress_bar = "None" /\ progress_bar' # "None") =>
        total' = IF max_items = None
                 THEN result'.total_results
                 ELSE Min(result'.total_results, max_items)

C1_TotalIsKept == progress_bar # "None" => total' = total

\* C1: emitted (progress_bar.n and the records yielded) never exceeds total,
\* the first ok page's total-results clamped to max_items.
C1_EmittedNeverExceedsTotal ==
    /\ [](IF progress_bar = "None"
          THEN n = 0 /\ yielded = <<>>
          ELSE n <= total /\ Len(yielded) <= total)
    /\ [][C1_TotalIsCap /\ C1_TotalIsKept]_vars

\* the cap was reached by cutting a page longer than the rows asked for,
\* after a failure
C1_Witness ==
    /\ progress_bar # "None"
    /\ total > 0
    /\ Len(yielded) = total
    /\ Len(result.items) > Len(items)
    /\ Len(result.items) > lastReq.rows
    /\ ~clean

\* ===================================================================== C2
\* C2: with max_items = M against a static upstream that holds (and reports)
\* at least M records, if requests keep succeeding and no ok page comes back
\* empty while records are still due, the run ends having yielded exactly M
\* records.
C2_Premise == max_items # None /\ upstreamN >= max_items /\ ~starved

\* C2: under the premise the run ends with exactly max_items records yielded.
C2_MaxItemsEnforced ==
    <>[](pc = "done" /\ (C2_Premise => Len(yielded) = max_items))

C2_Witness ==
    /\ pc = "done"
    /\ C2_Premise
    /\ max_items > 0
    /\ upstreamN > max_items
    /\ Len(yielded) = max_items
    /\ ~clean

\* ===================================================================== C3
\* C3 as stated: in a failure-free run, once emitted = total the run has
\* ended and no further API request is made.
C3_EndsAtTotal ==
    (clean /\ progress_bar # "None" /\ n = total) => pc # "request"

\* C3 (amended): in a failure-free run every processed page but the last
\* strictly increases emitted, and the run ends exactly on the page from
\* which no item is taken: an empty page, or a page requested when
\* emitted = total already held. It ends on no other step.
C3_PageStep ==
    (clean /\ PageDone) =>
        /\ n' = n + Len(items)
        /\ (pc' = "request") = (n' > n)
        /\ (pc' = "done") = (result.items = <<>> \/ n = total)

C3_EndsOnlyOnPage == (pc # "done" /\ pc' = "done") => PageDone

\* C3 (amended): a failure-free run grows emitted on every page but the last
\* and ends exactly on the page from which no item is taken.
C3_EndsOnZeroItemPage == [][C3_PageStep /\ C3_EndsOnlyOnPage]_vars

\* the run reached emitted = total, asked for one more page, got a non-empty
\* one and ended on it
C3_Witness ==
    /\ clean
    /\ pc = "done"
    /\ total >= 2
    /\ n = total
    /\ result.items # <<>>
    /\ items = <<>>

\* ===================================================================== C4
\* C4: in offset mode, the step that completes an ok page sets offset to the
\* old offset plus the number of items yielded from that page; no other step
\* changes offset; the first request carries offset 0.
C4_PageAdvances ==
    (~CursorMode /\ PageDone) =>
        /\ yieldPos = Len(items)
        /\ offset' = offset + yieldPos

C4_OnlyPageAdvances == (~CursorMode /\ ~PageDone) => offset' = offset

C4_FirstOffset ==
    (~CursorMode /\ lastOutcome = "none" /\ Called) =>
        lastReq'.key = "offset" /\ lastReq'.offset = 0

\* C4: offset advances by the items yielded on each completed page, on no
\* other step, starting from 0.
C4_OffsetAdvance ==
    [][C4_PageAdvances /\ C4_OnlyPageAdvances /\ C4_FirstOffset]_vars

\* a second page was processed after a retried failure
C4_Witness ==
    /\ ~CursorMode
    /\ pc = "request"
    /\ offset = 2
    /\ lastReq.offset = 1
    /\ ~clean

\* ===================================================================== C5
\* C5: in cursor mode every request carries the next-cursor of the latest ok
\* response (the caller's cursor before the first one), so retries after
\* failures and not-ok payloads re-send the cursor of the request they retry.
C5_Expected == IF progress_bar = "None" THEN cursor_arg ELSE result.next_cursor

C5_RequestCursor ==
    (CursorMode /\ Called) =>
        /\ lastReq'.key = "cursor"
        /\ lastReq'.cursor = C5_Expected
        /\ (lastOutcome \notin {"none", "ok"} => lastReq'.cursor = lastReq.cursor)

\* C5: each cursor-mode request carries the latest ok response's next-cursor.
C5_CursorFollowsResponse == [][C5_RequestCursor]_vars

\* a retry re-sent a cursor that an ok response had handed out
C5_Witness ==
    /\ CursorMode
    /\ lastReq.key = "cursor"
    /\ lastReq.cursor = "c2"
    /\ streak = 2

\* ===================================================================== C6
\* C6: an ok page sets successive_errors to 0 and rows to batch_size whatever
\* the streak before it, and the request after it carries rows = batch_size.
C6_Reset ==
    (Called /\ lastOutcome' = "ok") =>
        successive_errors' = 0 /\ rows' = batch_size

C6_NextRows ==
    (Called /\ lastOutcome = "ok") => lastReq'.rows = batch_size

\* C6: an ok page resets successive_errors and rows; the next request carries
\* rows = batch_size.
C6_SuccessResets == [][C6_Reset /\ C6_NextRows]_vars

\* an ok page answered the request that ended a streak of MaxErrors failures
C6_Witness ==
    /\ lastOutcome = "ok"
    /\ slept = Pow(2, MaxErrors)
    /\ lastReq.rows < batch_size
    /\ successive_errors = 0
    /\ rows = batch_size

PyRound(num, den) ==
    LET q == num \div den
        r == num % den
    IN  IF 2 * r < den THEN q
        ELSE IF 2 * r > den THEN q + 1
        ELSE IF q % 2 = 0 THEN q ELSE q + 1

\* r_0 = b, r_k = floor(3 * r_(k-1) / 4)
RECURSIVE TruncIter(_, _)
TruncIter(b, k) == IF k = 0 THEN b ELSE (3 * TruncIter(b, k - 1)) \div 4

\* C8 as stated: after k consecutive failures rows = round(batch_size * 0.75^k)
C8_RowsIsRounded ==
    Failed(lastOutcome) =>
        rows = PyRound(batch_size * Pow(3, streak), Pow(4, streak))

\* C8 (amended): after k consecutive failures rows is batch_size put k times
\* through r -> floor(0.75 * r), which never exceeds round(batch_size * 0.75^k)
C8_RowsIsTruncated ==
    Failed(lastOutcome) =>
        /\ rows = TruncIter(batch_size, streak)
        /\ rows <= PyRound(batch_size * Pow(3, streak), Pow(4, streak))

\* a streak after which the truncated value is below the rounded one
C8_Witness ==
    /\ Failed(lastOutcome)
    /\ streak >= 1
    /\ rows = TruncIter(batch_size, streak)
    /\ rows < PyRound(batch_size * Pow(3, streak), Pow(4, streak))

\* ===================================================================== C9
\* C9 as stated: a not-ok payload leaves successive_errors and rows as they
\* were, and the retry after it repeats the parameters of the request that
\* got it.
C9_NotOkKeeps ==
    /\ (Called /\ lastOutcome' = "notok") =>
            successive_errors' = successive_errors /\ rows' = rows
    /\ (Called /\ lastOutcome = "notok") => lastReq' = lastReq

\* C9 as stated: a not-ok payload mutates neither successive_errors nor rows
\* and is retried with identical parameters.
C9_NotOkLeavesErrorState == [][C9_NotOkKeeps]_vars

\* C9 (amended): a not-ok payload, like every HTTP 200 response, sets
\* successive_errors to 0 and rows to batch_size and leaves the position
\* alone; the retry after it repeats the cursor/offset of the request that got
\* it, with rows = batch_size.
C9_NotOkResetsStep ==
    /\ (Called /\ lastOutcome' = "notok") =>
            /\ successive_errors' = 0
            /\ rows' = batch_size
            /\ UNCHANGED <<cursor, offset, n, total, progress_bar, yielded, pc>>
    /\ (Called /\ lastOutcome = "notok") =>
            /\ lastReq'.key = lastReq.key
            /\ lastReq'.cursor = lastReq.cursor
            /\ lastReq'.offset = lastReq.offset
            /\ lastReq'.rows = batch_size

\* C9 (amended): a not-ok payload resets successive_errors and rows, keeps the
\* position, and is retried at that position with rows = batch_size.
C9_NotOkResets == [][C9_NotOkResetsStep]_vars

\* a not-ok payload that answered a shrunken request inside a failure streak
C9_Witness ==
    /\ lastOutcome = "notok"
    /\ lastReq.rows < batch_size
    /\ slept > 0
    /\ successive_errors = 0
    /\ rows = batch_size

\* ==================================================================== C10
\* C10: a transport failure or non-200 status changes neither cursor/offset
\* nor emitted nor total, and the retry carries the position of the failed
\* request; successive_errors grows by one and rows shrinks.
C10_ErrorStep ==
    /\ (Called /\ Failed(lastOutcome')) =>
            /\ UNCHANGED <<cursor, offset, n, total, progress_bar, yielded, pc>>
            /\ successive_errors' = successive_errors + 1
            /\ rows' <= rows
    /\ (Called /\ Failed(lastOutcome)) =>
            /\ lastReq'.key = lastReq.key
            /\ lastReq'.cursor = lastReq.cursor
            /\ lastReq'.offset = lastReq.offset

\* C10: a recoverable error keeps cursor/offset, emitted and total.
C10_ErrorKeepsPosition == [][C10_ErrorStep]_vars

\* a failure in the middle of a run, retried
C10_Witness ==
    /\ Failed(lastOutcome)
    /\ streak = 2
    /\ n > 0
    /\ n < total
    /\ rows < batch_size


\* ==================================================================== C11
\* C11: every request carries rows and exactly one positional parameter, of
\* the kind fixed at the start: cursor when a non-empty cursor was supplied,
\* offset otherwise, whatever next-cursor the responses carry.
C11_RequestKind ==
    Called =>
        /\ lastReq'.rows # None
        /\ lastReq'.key = IF CursorMode THEN "cursor" ELSE "offset"
        /\ (lastReq'.key = "cursor") = Truthy(lastReq'.cursor)
        /\ (lastReq'.key = "offset") = (lastReq'.offset # None)
        /\ (lastReq'.cursor = NoneStr) # (lastReq'.offset = None)

C11_ModeIsFixed == [][C11_RequestKind]_vars

\* a cursor-mode run that went on with a cursor handed out by the upstream
C11_Witness ==
    /\ CursorMode
    /\ lastReq.key = "cursor"
    /\ lastReq.cursor = "c1"
    /\ lastReq.offset = None
    /\ n > 0

\* ==================================================================== C12
\* C12: no transport/HTTP-status/not-ok failure ends the run, raises or
\* yields, and a run aborts with an error only through the start-index
\* assertion of offset mode.
C12_FailureStep ==
    (Called /\ lastOutcome' # "ok") =>
        pc' = "request" /\ error' = "none" /\ yielded' = yielded

C12_OnlyAssertionAborts ==
    /\ [](pc = "error" => error = "AssertionError" /\ ~CursorMode)
    /\ [][C12_FailureStep]_vars

\* ==================================================================== C13
C13_AtCheck == ~CursorMode /\ pc = "yield" /\ yieldPos = Len(items)

C13_CheckStep ==
    (C13_AtCheck /\ pc' # pc) =>
        IF result.start_index # None /\ result.start_index # offset
        THEN /\ pc' = "error"
             /\ error' = "AssertionError"
             /\ offset' = offset
             /\ n' = n
        ELSE /\ pc' \in {"request", "done"}
             /\ error' = "none"
             /\ offset' = offset + Len(items)
             /\ n' = n + Len(items)

C13_NoStepAfterAbort == pc = "error" => UNCHANGED vars

\* C13: in offset mode a start-index different from the offset aborts the run
\* with an AssertionError, offset and progress_bar.n not advanced and nothing
\* done afterwards; a missing (or equal) start-index lets the run go on.
C13_StartIndexChecked == [][C13_CheckStep /\ C13_NoStepAfterAbort]_vars

C13_Witness ==
    /\ pc = "error"
    /\ error = "AssertionError"
    /\ result.start_index = 0
    /\ offset = 1
    /\ lastReq.offset = 1

\* ==================================================================== C14
C14_SetOnFirstOk ==
    /\ (progress_bar = "None" /\ Called /\ lastOutcome' = "ok") =>
            /\ progress_bar' # "None"
            /\ total' = IF max_items = None
                        THEN result'.total_results
                        ELSE Min(result'.total_results, max_items)
    /\ (progress_bar = "None" /\ ~(Called /\ lastOutcome' = "ok")) =>
            progress_bar' = "None" /\ total' = None

C14_NeverSetAgain ==
    progress_bar # "None" =>
        progress_bar' = progress_bar /\ total' = total /\ n' >= n

\* C14: total and the progress bar are set on the first ok page and only
\* there; later pages, whatever total-results they report, leave both alone.
C14_TotalSetOnce == [][C14_SetOnFirstOk /\ C14_NeverSetAgain]_vars

\* a later page reported another total-results than the one total came from
C14_Witness ==
    /\ max_items = None
    /\ total = 2
    /\ n = 1
    /\ lastOutcome = "ok"
    /\ result.total_results = 1

\* ==================================================================== C15
C15_NotOkStep ==
    /\ (Called /\ lastOutcome' = "notok") =>
            /\ successive_errors' <= successive_errors
            /\ rows' >= rows
            /\ slept' = slept
            /\ UNCHANGED <<cursor, offset, n, total, progress_bar, yielded>>
            /\ pc' = "request"
    /\ (Called /\ lastOutcome = "notok") =>
            /\ lastReq'.key = lastReq.key
            /\ lastReq'.cursor = lastReq.cursor
            /\ lastReq'.offset = lastReq.offset

\* C15: a not-ok payload neither increments successive_errors nor shrinks
\* rows nor sleeps, leaves cursor/offset, emitted and total alone, and is
\* retried at the same position.
C15_NotOkNotCounted == [][C15_NotOkStep]_vars

\* a not-ok payload in the middle of a run, after failures
C15_Witness ==
    /\ lastOutcome = "notok"
    /\ n > 0
    /\ n < total
    /\ slept > 0

\* ==================================================================== C16
\* C16: rows is always at least 1, and every request carries
\* 1 <= rows <= batch_size.
C16_RowsAtLeastOne ==
    /\ rows >= 1
    /\ lastReq.key # "none" => lastReq.rows >= 1 /\ lastReq.rows <= batch_size

\* ==================================================================== C17
\* C17: in offset mode against a static upstream the records yielded so far
\* are the first records of the collection, in order, each once.
C17_YieldedIsPrefix ==
    ~CursorMode =>
        /\ Len(yielded) <= upstreamN
        /\ yielded = Run(0, Len(yielded))

\* two pages were yielded around failures
C17_Witness ==
    /\ ~CursorMode
    /\ yielded = <<0, 1>>
    /\ lastReq.offset = 1
    /\ ~clean

\* ==================================================================== C18
\* C18: against a static upstream a run that ends without error has emitted
\* min(total, size of the collection) records.
C18_NeverEndsEarly == pc = "done" => n = Min(total, upstreamN)

\* ==================================================================== C19
C19_AbortStep ==
    (pc # "error" /\ pc' = "error" /\ error' = "AssertionError") =>
        /\ pc = "yield"
        /\ yieldPos = Len(items)
        /\ UNCHANGED <<offset, n, yielded>>

C19_Aborted ==
    (pc = "error" /\ error = "AssertionError") =>
        /\ Len(yielded) = n + Len(items)
        /\ SubSeq(yielded, n + 1, Len(yielded)) = items
        /\ offset = lastReq.offset

\* C19: the start-index check runs after the page's taken items have all been
\* yielded: when it aborts the run those records are with the consumer while
\* offset and progress_bar.n do not count them.
C19_CheckAfterYield == []C19_Aborted /\ [][C19_AbortStep]_vars

\* an abort on a page of two items, both yielded
C19_Witness ==
    /\ pc = "error"
    /\ error = "AssertionError"
    /\ Len(items) = 2
    /\ Len(yielded) = n + 2

====
